---- MODULE Spec2Model ----
(***************************************************************************)
(* Statement rewrite rules of nuitka/nodes/AssignNodes.py.                 *)
(*                                                                         *)
(* One statement at a time is constructed and then handed to its           *)
(* computeStatement together with the constraint collection of the scope.  *)
(* The constraint collection keeps the current trace of every variable     *)
(* across statements; "calls" is the log of the calls the rule made on it  *)
(* for the statement at hand.                                              *)
(***************************************************************************)
EXTENDS Integers, Sequences, FiniteSets, TLC

\* ------------------------------------------------------------------ bounds
MaxStatements == 2      \* statements visited in one traversal
MaxSideEffects == 2     \* side effects an ExpressionSideEffects carries
MaxUsages == 2          \* definite usages counted on a trace

\* --------------------------------------------------------------- variables
VARIABLES
    node,                   \* the statement at hand (fields of the node object)
    constraint_collection,  \* [traces, calls]
    ret,                    \* what computeStatement returned
    pc,                     \* "idle" | "constructed" | "computed"
    experimental,           \* Options.isExperimental()
    lookup,                 \* what VariableRegistry / the parent provider answered
    answer,                 \* last answer of mayRaiseException / mayHaveSideEffects
    count                   \* statements constructed so far

vars == <<node, constraint_collection, ret, pc, experimental, lookup, answer, count>>

PyNone == "None"

\* ------------------------------------------------------- program variables
\* The variables of the scope: a module variable, a plain local, a local
\* shared with a nested scope, and a temporary.
VariableNames == {"g", "x", "c", "t"}

isModuleVariable(variable) == variable = "g"
isLocalVariable(variable) == variable \in {"x", "c"}
isTempVariable(variable) == variable = "t"
isSharedLogically(variable) == variable = "c"
isSharedTechnically(variable) == variable \in {"g", "c"}

\* ------------------------------------------------------------------ traces
\* A trace is abstracted to its variant and whether a replacement node has
\* been installed on it.
Trace(type) == [type |-> type, replacement |-> FALSE]
NoTrace == Trace(PyNone)
UninitTrace == Trace("Uninit")
AssignedTrace == Trace("Assigned")
UnknownTrace == Trace("Unknown")

isUninitTrace(trace) == trace.type = "Uninit"
mustHaveValue(trace) == trace.type = "Assigned"
mustNotHaveValue(trace) == trace.type = "Uninit"

\* ------------------------------------------------------------- expressions
\* An expression is what the expression analyzer answers about it, after
\* onExpression has run on it. "role" and "id" are its identity.
BaseExpr(role) ==
    [role |-> role, id |-> 0, shape |-> "other", will_raise |-> FALSE,
     mutable |-> FALSE, variable |-> "", generator |-> FALSE,
     class_dict |-> FALSE, defaults |-> FALSE, kw_defaults |-> FALSE,
     annotations |-> FALSE, side_effects |-> <<>>, residual |-> "other"]

NoneExpr(role) == [BaseExpr(role) EXCEPT !.shape = PyNone]

isNone(expression) == expression.shape = PyNone
willRaiseException(expression) == expression.will_raise
isExpressionVariableRef(expression) == expression.shape = "variable_ref"
isExpressionSideEffects(expression) == expression.shape = "side_effects"
isCompileTimeConstant(expression) == expression.shape = "constant"
isMutable(expression) == expression.mutable
isExpressionFunctionCreation(expression) == expression.shape = "function_creation"

\* ExpressionSideEffects.getSideEffects: the extracted fragments, in order.
getSideEffects(expression) ==
    [i \in 1..Len(expression.side_effects) |->
        [BaseExpr("side_effect") EXCEPT !.id = expression.side_effects[i]]]

\* ExpressionSideEffects.getExpression: the residual expression.
getExpression(expression) ==
    [BaseExpr("residual") EXCEPT !.shape = expression.residual,
                                 !.will_raise = expression.will_raise]

\* ExpressionVariableRef.mayHaveSideEffects: reading a variable has an effect
\* (it may raise) unless its trace proves it defined.
mayHaveSideEffects(expression, cc) ==
    ~ mustHaveValue(cc.traces[expression.variable])

\* ------------------------------------------------- constraint collection
Log(cc, name, arg) == [cc EXCEPT !.calls = Append(@, <<name, arg>>)]

onExpression(cc, expression) == Log(cc, "onExpression", expression.role)

onVariableSet(cc, variable) ==
    [Log(cc, "onVariableSet", variable) EXCEPT !.traces[variable] = AssignedTrace]

onVariableDel(cc, variable) ==
    [Log(cc, "onVariableDel", variable) EXCEPT !.traces[variable] = UninitTrace]

onVariableRelease(cc, variable) == Log(cc, "onVariableRelease", variable)

getVariableCurrentTrace(cc, variable) == Log(cc, "getVariableCurrentTrace", variable)

onControlFlowEscape(cc) ==
    [Log(cc, "onControlFlowEscape", "") EXCEPT
        !.traces = [v \in VariableNames |->
                        IF isModuleVariable(v) \/ isSharedTechnically(v)
                        THEN UnknownTrace ELSE @[v]]]

setReplacementNode(cc, variable) ==
    [Log(cc, "setReplacementNode", variable) EXCEPT
        !.traces[variable].replacement = TRUE]

\* ------------------------------------------------------ replacement nodes
Stmt(kind) ==
    [stmt |-> kind, expression |-> NoneExpr("none"), variable |-> "", tolerant |-> FALSE]

StatementExpressionOnly(expression) ==
    [Stmt("expression_only") EXCEPT !.expression = expression]

SelfStatement == Stmt("self")

Unchanged == [form |-> "self", statements |-> <<>>]
Removed == [form |-> PyNone, statements |-> <<>>]

makeStatementExpressionOnlyReplacementNode(expression) ==
    [form |-> "statement", statements |-> <<StatementExpressionOnly(expression)>>]

makeStatementOnlyNodesFromExpressions(expressions) ==
    [form |-> "sequence",
     statements |-> [i \in 1..Len(expressions) |-> StatementExpressionOnly(expressions[i])]]

makeStatementsSequenceReplacementNode(statements) ==
    [form |-> "sequence", statements |-> statements]

NewStatementDelVariable(variable, tolerant) ==
    [form |-> "statement",
     statements |-> <<[Stmt("del_variable") EXCEPT !.variable = variable,
                                                   !.tolerant = tolerant]>>]

\* ---------------------------------------------------------- return values
NoReturn == [form |-> "none", replacement |-> Unchanged,
             change_tag |-> PyNone, description |-> PyNone]

\* return replacement, change_tag, description
Triple(replacement, change_tag, description) ==
    [form |-> "triple", replacement |-> replacement,
     change_tag |-> change_tag, description |-> description]

\* return replacement      (a bare node, no tuple)
BareNode(replacement) ==
    [form |-> "node", replacement |-> replacement,
     change_tag |-> "absent", description |-> "absent"]

\* ------------------------------------------------------------------- nodes
NoNode ==
    [kind |-> "none", source |-> NoneExpr("source"),
     expression |-> NoneExpr("expression"), subscript |-> NoneExpr("subscript"),
     lower |-> NoneExpr("lower"), upper |-> NoneExpr("upper"),
     variable |-> "", tolerant |-> FALSE,
     variable_trace |-> NoTrace, previous_trace |-> NoTrace]

\* What a rule hands back: the node's fields after the call, the constraint
\* collection after the call, the returned value, and whether the variable
\* registry was consulted.
Outcome(self, cc, result, consulted) ==
    [node |-> self, cc |-> cc, ret |-> result, consulted |-> consulted]

\* --------------------------------------------- VariableRegistry answers
\* What VariableRegistry.getGlobalVariableTrace(variable), its
\* getMatchingAssignTrace(self) and self.getParentVariableProvider() answer.
NoLookup ==
    [global_trace |-> FALSE, matching |-> FALSE, definite |-> 0,
     potential |-> FALSE, name |-> FALSE, previous_uninit |-> FALSE,
     provider |-> "function"]

Providers == {"function", "unoptimized", "class_dict"}

RegistryAnswers ==
    {[NoLookup EXCEPT !.provider = p] : p \in Providers}
    \cup {[NoLookup EXCEPT !.provider = p, !.global_trace = TRUE] : p \in Providers}
    \cup [global_trace : {TRUE}, matching : {TRUE}, definite : 0..MaxUsages,
          potential : BOOLEAN, name : BOOLEAN, previous_uninit : BOOLEAN,
          provider : Providers]

getDefiniteUsages(last_trace) == last_trace.definite
hasDefiniteUsages(last_trace) == last_trace.definite > 0
hasPotentialUsages(last_trace) == last_trace.potential
hasNameUsages(last_trace) == last_trace.name
isUnoptimized(registry) == registry.provider = "unoptimized"
isClassDictCreation(registry) == registry.provider = "class_dict"

\* ------------------------------------------ StatementAssignmentVariable
DroppedDescription(propagated) ==
    IF propagated THEN "Dropped propagated assignment statement."
                  ELSE "Dropped dead assignment statement."

\* Variant: the delete left behind is not tolerant.
DropReplacement_Strict(self, last_trace) ==
    IF ~ last_trace.previous_uninit
    THEN NewStatementDelVariable(self.variable, FALSE)
    ELSE Removed

\* The replacement of a dropped assignment (lines 208-216 and 260-268).
DropReplacement(self, last_trace) ==
    IF ~ last_trace.previous_uninit
    THEN NewStatementDelVariable(self.variable, TRUE)
    ELSE Removed

\* The tail of the rule, "return self, None, None", with the node's
\* variable_trace being the trace object the constraint collection holds.
KeepAssignment(self, cc) ==
    Outcome([self EXCEPT !.variable_trace = cc.traces[self.variable]], cc,
            Triple(Unchanged, PyNone, PyNone), TRUE)

\* source.isCompileTimeConstant() branch.
PropagateConstant(self, cc, last_trace) ==
    LET source == self.source
        variable == self.variable
    IN  IF ~ isMutable(source)
        THEN IF isTempVariable(variable)
                \/ (~ isUnoptimized(last_trace) /\ ~ isClassDictCreation(last_trace))
             THEN LET propagated == hasDefiniteUsages(last_trace)
                      cc2 == IF propagated THEN setReplacementNode(cc, variable) ELSE cc
                  IN  IF ~ hasPotentialUsages(last_trace) /\ ~ hasNameUsages(last_trace)
                      THEN IF ~ isSharedLogically(variable)
                           THEN Outcome([self EXCEPT !.variable_trace = cc2.traces[variable]],
                                        cc2,
                                        Triple(DropReplacement(self, last_trace),
                                               "new_statements",
                                               DroppedDescription(propagated)),
                                        TRUE)
                           ELSE KeepAssignment(self, cc2)
                      ELSE KeepAssignment(self, cc2)
             ELSE KeepAssignment(self, cc)
        ELSE KeepAssignment(self, cc)

\* The conditions on the function construction of the elif.
isPlainFunctionCreation(source) ==
    /\ isExpressionFunctionCreation(source)
    /\ ~ source.generator
    /\ ~ source.class_dict
    /\ ~ source.defaults
    /\ ~ source.kw_defaults
    /\ ~ source.annotations

\* Variant: the function construction is forwarded whatever its usage count.
PropagateFunction_AnyUsageCount(self, cc, last_trace) ==
    LET variable == self.variable
    IN  IF isTempVariable(variable)
           \/ (~ isUnoptimized(last_trace) /\ ~ isClassDictCreation(last_trace))
        THEN IF ~ isSharedLogically(variable)
             THEN IF /\ getDefiniteUsages(last_trace) >= 0
                     /\ ~ hasPotentialUsages(last_trace)
                     /\ ~ hasNameUsages(last_trace)
                  THEN LET propagated == getDefiniteUsages(last_trace) >= 1
                           cc2 == IF propagated THEN setReplacementNode(cc, variable) ELSE cc
                       IN  Outcome([self EXCEPT !.variable_trace = cc2.traces[variable]],
                                   cc2,
                                   Triple(DropReplacement(self, last_trace),
                                          "new_statements",
                                          DroppedDescription(propagated)),
                                   TRUE)
                  ELSE KeepAssignment(self, cc)
             ELSE KeepAssignment(self, cc)
        ELSE KeepAssignment(self, cc)

\* source.isExpressionFunctionCreation() branch.
PropagateFunction(self, cc, last_trace) ==
    LET variable == self.variable
    IN  IF isTempVariable(variable)
           \/ (~ isUnoptimized(last_trace) /\ ~ isClassDictCreation(last_trace))
        THEN IF ~ isSharedLogically(variable)
             THEN IF /\ getDefiniteUsages(last_trace) <= 1
                     /\ ~ hasPotentialUsages(last_trace)
                     /\ ~ hasNameUsages(last_trace)
                  THEN LET propagated == getDefiniteUsages(last_trace) = 1
                           cc2 == IF propagated THEN setReplacementNode(cc, variable) ELSE cc
                       IN  Outcome([self EXCEPT !.variable_trace = cc2.traces[variable]],
                                   cc2,
                                   Triple(DropReplacement(self, last_trace),
                                          "new_statements",
                                          DroppedDescription(propagated)),
                                   TRUE)
                  ELSE KeepAssignment(self, cc)
             ELSE KeepAssignment(self, cc)
        ELSE KeepAssignment(self, cc)

\* Variant: the propagation is tried in every mode.
RecordAndPropagate_Ungated(self, cc, registry, is_experimental) ==
    LET variable == self.variable
        source == self.source
        cc1 == onVariableSet(cc, variable)
    IN  IF registry.global_trace
        THEN IF registry.matching
             THEN IF isLocalVariable(variable) \/ isTempVariable(variable)
                  THEN IF isCompileTimeConstant(source)
                       THEN PropagateConstant(self, cc1, registry)
                       ELSE IF isPlainFunctionCreation(source)
                            THEN PropagateFunction(self, cc1, registry)
                            ELSE KeepAssignment(self, cc1)
                  ELSE KeepAssignment(self, cc1)
             ELSE KeepAssignment(self, cc1)
        ELSE KeepAssignment(self, cc1)

\* Case (d): record the trace, then try to propagate.
RecordAndPropagate(self, cc, registry, is_experimental) ==
    LET variable == self.variable
        source == self.source
        cc1 == onVariableSet(cc, variable)
    IN  IF registry.global_trace /\ is_experimental
        THEN IF registry.matching
             THEN IF isLocalVariable(variable) \/ isTempVariable(variable)
                  THEN IF isCompileTimeConstant(source)
                       THEN PropagateConstant(self, cc1, registry)
                       ELSE IF is_experimental /\ isPlainFunctionCreation(source)
                            THEN PropagateFunction(self, cc1, registry)
                            ELSE KeepAssignment(self, cc1)
                  ELSE KeepAssignment(self, cc1)
             ELSE KeepAssignment(self, cc1)
        ELSE KeepAssignment(self, cc1)

\* Variant: the side effects are placed after the assignment.
HoistSideEffects_AfterAssignment(self, cc) ==
    LET source == self.source
        side_effects == getSideEffects(source)
        statements ==
            <<SelfStatement>>
            \o [i \in 1..Len(side_effects) |-> StatementExpressionOnly(side_effects[i])]
    IN  Outcome([self EXCEPT !.source = getExpression(source)], cc,
                Triple(makeStatementsSequenceReplacementNode(statements),
                       "new_statements",
                       "Side effects of assignments promoted to statements."),
                FALSE)

\* The hoisting of the side effects of the source.
HoistSideEffects(self, cc) ==
    LET source == self.source
        side_effects == getSideEffects(source)
        statements ==
            [i \in 1..Len(side_effects) |-> StatementExpressionOnly(side_effects[i])]
            \o <<SelfStatement>>
    IN  Outcome([self EXCEPT !.source = getExpression(source)], cc,
                Triple(makeStatementsSequenceReplacementNode(statements),
                       "new_statements",
                       "Side effects of assignments promoted to statements."),
                FALSE)

\* Variant: the self assignment is removed without asking for side effects.
SelfAssignment_AlwaysRemoved(self, cc) ==
    LET source == self.source
    IN  IF FALSE
        THEN Outcome(self, cc,
                     Triple(makeStatementExpressionOnlyReplacementNode(source),
                            "new_statements",
                            "Reduced assignment of variable from itself to access of it."),
                     FALSE)
        ELSE Outcome(self, cc,
                     Triple(Removed, "new_statements",
                            "Removed assignment of variable from itself which is known to be defined."),
                     FALSE)

\* Assignment of a variable from itself.
SelfAssignment(self, cc) ==
    LET source == self.source
    IN  IF mayHaveSideEffects(source, cc)
        THEN Outcome(self, cc,
                     Triple(makeStatementExpressionOnlyReplacementNode(source),
                            "new_statements",
                            "Reduced assignment of variable from itself to access of it."),
                     FALSE)
        ELSE Outcome(self, cc,
                     Triple(Removed, "new_statements",
                            "Removed assignment of variable from itself which is known to be defined."),
                     FALSE)

\* Variant: the self assignment is looked for before the raising source.
StatementAssignmentVariable_computeStatement_RaiseCheckedLate(self, cc, registry, is_experimental) ==
    LET cc1 == onExpression(cc, self.source)
        source == self.source
        variable == self.variable
    IN  IF willRaiseException(source)
           /\ ~ (isExpressionVariableRef(source) /\ source.variable = variable)
        THEN Outcome(self, cc1,
                     Triple(makeStatementExpressionOnlyReplacementNode(source),
                            "new_raise",
                            "Assignment raises exception in assigned value, removed assignment."),
                     FALSE)
        ELSE IF /\ ~ isModuleVariable(variable)
                /\ isExpressionVariableRef(source)
                /\ source.variable = variable
        THEN SelfAssignment(self, cc1)
        ELSE IF isExpressionSideEffects(source)
        THEN HoistSideEffects(self, cc1)
        ELSE RecordAndPropagate(self, cc1, registry, is_experimental)

\* Variant: the trace is recorded before the side effects are hoisted.
StatementAssignmentVariable_computeStatement_TraceBeforeHoist(self, cc, registry, is_experimental) ==
    LET cc1 == onExpression(cc, self.source)
        source == self.source
        variable == self.variable
    IN  IF willRaiseException(source)
        THEN Outcome(self, cc1,
                     Triple(makeStatementExpressionOnlyReplacementNode(source),
                            "new_raise",
                            "Assignment raises exception in assigned value, removed assignment."),
                     FALSE)
        ELSE IF /\ ~ isModuleVariable(variable)
                /\ isExpressionVariableRef(source)
                /\ source.variable = variable
        THEN SelfAssignment(self, cc1)
        ELSE IF isExpressionSideEffects(source)
        THEN HoistSideEffects(self, onVariableSet(cc1, variable))
        ELSE RecordAndPropagate(self, cc1, registry, is_experimental)

StatementAssignmentVariable_computeStatement(self, cc, registry, is_experimental) ==
    LET cc1 == onExpression(cc, self.source)
        source == self.source
        variable == self.variable
    IN  IF willRaiseException(source)
        THEN Outcome(self, cc1,
                     Triple(makeStatementExpressionOnlyReplacementNode(source),
                            "new_raise",
                            "Assignment raises exception in assigned value, removed assignment."),
                     FALSE)
        ELSE IF /\ ~ isModuleVariable(variable)
                /\ isExpressionVariableRef(source)
                /\ source.variable = variable
        THEN SelfAssignment(self, cc1)
        ELSE IF isExpressionSideEffects(source)
        THEN HoistSideEffects(self, cc1)
        ELSE RecordAndPropagate(self, cc1, registry, is_experimental)

Unchanged3 == Triple(Unchanged, PyNone, PyNone)

\* Variant: the escape is recorded before the lookup source is looked at.
StatementAssignmentAttribute_computeStatement_EscapesEarly(self, cc) ==
    LET cc1 == onExpression(cc, self.source)
        source == self.source
        cc2 == onExpression(cc1, self.expression)
        lookup_source == self.expression
    IN  IF willRaiseException(source)
        THEN Outcome(self, cc1,
                     Triple(makeStatementExpressionOnlyReplacementNode(source),
                            "new_raise",
                            "Attribute assignment raises exception in assigned value, removed assignment."),
                     FALSE)
        ELSE IF willRaiseException(lookup_source)
        THEN Outcome(self, onControlFlowEscape(cc2),
                     Triple(makeStatementOnlyNodesFromExpressions(<<source, lookup_source>>),
                            "new_raise",
                            "Attribute assignment raises exception in source, removed assignment."),
                     FALSE)
        ELSE Outcome(self, onControlFlowEscape(cc2), Unchanged3, FALSE)

\* ----------------------------------------- StatementAssignmentAttribute
StatementAssignmentAttribute_computeStatement(self, cc) ==
    LET cc1 == onExpression(cc, self.source)
        source == self.source
        cc2 == onExpression(cc1, self.expression)
        lookup_source == self.expression
    IN  IF willRaiseException(source)
        THEN Outcome(self, cc1,
                     Triple(makeStatementExpressionOnlyReplacementNode(source),
                            "new_raise",
                            "Attribute assignment raises exception in assigned value, removed assignment."),
                     FALSE)
        ELSE IF willRaiseException(lookup_source)
        THEN Outcome(self, cc2,
                     Triple(makeStatementOnlyNodesFromExpressions(<<source, lookup_source>>),
                            "new_raise",
                            "Attribute assignment raises exception in source, removed assignment."),
                     FALSE)
        ELSE Outcome(self, onControlFlowEscape(cc2), Unchanged3, FALSE)

\* Variant: the raising subscript is left out of the kept evaluations.
StatementAssignmentSubscript_computeStatement_DropsSubscript(self, cc) ==
    LET cc1 == onExpression(cc, self.source)
        source == self.source
        cc2 == onExpression(cc1, self.expression)
        subscribed == self.expression
        cc3 == onExpression(cc2, self.subscript)
        subscript == self.subscript
    IN  IF willRaiseException(source)
        THEN Outcome(self, cc1,
                     Triple(makeStatementExpressionOnlyReplacementNode(source),
                            "new_raise",
                            "Subscript assignment raises exception in assigned value, removed assignment."),
                     FALSE)
        ELSE IF willRaiseException(subscribed)
        THEN Outcome(self, cc2,
                     Triple(makeStatementOnlyNodesFromExpressions(<<source, subscribed>>),
                            "new_raise",
                            "Subscript assignment raises exception in subscribed, removed assignment."),
                     FALSE)
        ELSE IF willRaiseException(subscript)
        THEN Outcome(self, cc3,
                     Triple(makeStatementOnlyNodesFromExpressions(
                                <<source, subscribed>>),
                            "new_raise",
                            "Subscript assignment raises exception in subscript value, removed assignment."),
                     FALSE)
        ELSE Outcome(self, onControlFlowEscape(cc3), Unchanged3, FALSE)

\* ----------------------------------------- StatementAssignmentSubscript
StatementAssignmentSubscript_computeStatement(self, cc) ==
    LET cc1 == onExpression(cc, self.source)
        source == self.source
        cc2 == onExpression(cc1, self.expression)
        subscribed == self.expression
        cc3 == onExpression(cc2, self.subscript)
        subscript == self.subscript
    IN  IF willRaiseException(source)
        THEN Outcome(self, cc1,
                     Triple(makeStatementExpressionOnlyReplacementNode(source),
                            "new_raise",
                            "Subscript assignment raises exception in assigned value, removed assignment."),
                     FALSE)
        ELSE IF willRaiseException(subscribed)
        THEN Outcome(self, cc2,
                     Triple(makeStatementOnlyNodesFromExpressions(<<source, subscribed>>),
                            "new_raise",
                            "Subscript assignment raises exception in subscribed, removed assignment."),
                     FALSE)
        ELSE IF willRaiseException(subscript)
        THEN Outcome(self, cc3,
                     Triple(makeStatementOnlyNodesFromExpressions(
                                <<source, subscribed, subscript>>),
                            "new_raise",
                            "Subscript assignment raises exception in subscript value, removed assignment."),
                     FALSE)
        ELSE Outcome(self, onControlFlowEscape(cc3), Unchanged3, FALSE)

\* Variant: both bounds are analyzed before the lower bound is looked at.
StatementAssignmentSlice_computeStatement_UpperAnalyzedEarly(self, cc) ==
    LET cc1 == onExpression(cc, self.source)
        source == self.source
        cc2 == onExpression(cc1, self.expression)
        lookup_source == self.expression
        cc3 == onExpression(cc2, self.lower)
        lower == self.lower
        cc4 == onExpression(cc3, self.upper)
        upper == self.upper
    IN  IF willRaiseException(source)
        THEN Outcome(self, cc1,
                     Triple(makeStatementExpressionOnlyReplacementNode(source),
                            "new_raise",
                            "Slice assignment raises exception in assigned value, removed assignment."),
                     FALSE)
        ELSE IF willRaiseException(lookup_source)
        THEN Outcome(self, cc2,
                     Triple(makeStatementOnlyNodesFromExpressions(<<source, lookup_source>>),
                            "new_raise",
                            "Slice assignment raises exception in sliced value, removed assignment."),
                     FALSE)
        ELSE IF ~ isNone(lower) /\ willRaiseException(lower)
        THEN Outcome(self, cc4,
                     Triple(makeStatementOnlyNodesFromExpressions(
                                <<source, lookup_source, lower>>),
                            "new_raise",
                            "Slice assignment raises exception in lower slice boundary value, removed assignment."),
                     FALSE)
        ELSE IF ~ isNone(upper) /\ willRaiseException(upper)
        THEN Outcome(self, cc4,
                     Triple(makeStatementOnlyNodesFromExpressions(
                                <<source, lookup_source, lower, upper>>),
                            "new_raise",
                            "Slice assignment raises exception in upper slice boundary value, removed assignment."),
                     FALSE)
        ELSE Outcome(self, onControlFlowEscape(cc4), Unchanged3, FALSE)

\* --------------------------------------------- StatementAssignmentSlice
StatementAssignmentSlice_computeStatement(self, cc) ==
    LET cc1 == onExpression(cc, self.source)
        source == self.source
        cc2 == onExpression(cc1, self.expression)
        lookup_source == self.expression
        cc3 == onExpression(cc2, self.lower)
        lower == self.lower
        cc4 == onExpression(cc3, self.upper)
        upper == self.upper
    IN  IF willRaiseException(source)
        THEN Outcome(self, cc1,
                     Triple(makeStatementExpressionOnlyReplacementNode(source),
                            "new_raise",
                            "Slice assignment raises exception in assigned value, removed assignment."),
                     FALSE)
        ELSE IF willRaiseException(lookup_source)
        THEN Outcome(self, cc2,
                     Triple(makeStatementOnlyNodesFromExpressions(<<source, lookup_source>>),
                            "new_raise",
                            "Slice assignment raises exception in sliced value, removed assignment."),
                     FALSE)
        ELSE IF ~ isNone(lower) /\ willRaiseException(lower)
        THEN Outcome(self, cc3,
                     Triple(makeStatementOnlyNodesFromExpressions(
                                <<source, lookup_source, lower>>),
                            "new_raise",
                            "Slice assignment raises exception in lower slice boundary value, removed assignment."),
                     FALSE)
        ELSE IF ~ isNone(upper) /\ willRaiseException(upper)
        THEN Outcome(self, cc4,
                     Triple(makeStatementOnlyNodesFromExpressions(
                                <<source, lookup_source, lower, upper>>),
                            "new_raise",
                            "Slice assignment raises exception in upper slice boundary value, removed assignment."),
                     FALSE)
        ELSE Outcome(self, onControlFlowEscape(cc4), Unchanged3, FALSE)

\* Variant: every delete of an uninitialized variable is removed.
StatementDelVariable_computeStatement_IgnoresTolerant(self, cc) ==
    LET variable == self.variable
        cc1 == onVariableDel(cc, variable)
        self1 == [self EXCEPT !.previous_trace = cc.traces[variable]]
        cc2 == onControlFlowEscape(cc1)
        cc3 == getVariableCurrentTrace(cc2, variable)
    IN  IF isUninitTrace(self1.previous_trace)
        THEN Outcome(self1, cc1,
                     Triple(Removed, "new_statements",
                            "Removed tolerant 'del' statement without effect."),
                     FALSE)
        ELSE Outcome([self1 EXCEPT !.variable_trace = cc3.traces[variable]], cc3,
                     Unchanged3, FALSE)

\* ------------------------------------------------- StatementDelVariable
\* Variant: the trace stored is the one known before the escape.
StatementDelVariable_computeStatement_StaleTrace(self, cc) ==
    LET variable == self.variable
        cc1 == onVariableDel(cc, variable)
        self1 == [self EXCEPT !.previous_trace = cc.traces[variable]]
        cc2 == onControlFlowEscape(cc1)
        cc3 == getVariableCurrentTrace(cc2, variable)
    IN  IF self1.tolerant /\ isUninitTrace(self1.previous_trace)
        THEN Outcome(self1, cc1,
                     Triple(Removed, "new_statements",
                            "Removed tolerant 'del' statement without effect."),
                     FALSE)
        ELSE Outcome([self1 EXCEPT !.variable_trace = cc1.traces[variable]], cc3,
                     Unchanged3, FALSE)

StatementDelVariable_computeStatement(self, cc) ==
    LET variable == self.variable
        cc1 == onVariableDel(cc, variable)
        self1 == [self EXCEPT !.previous_trace = cc.traces[variable]]
        cc2 == onControlFlowEscape(cc1)
        cc3 == getVariableCurrentTrace(cc2, variable)
    IN  IF self1.tolerant /\ isUninitTrace(self1.previous_trace)
        THEN Outcome(self1, cc1,
                     Triple(Removed, "new_statements",
                            "Removed tolerant 'del' statement without effect."),
                     FALSE)
        ELSE Outcome([self1 EXCEPT !.variable_trace = cc3.traces[variable]], cc3,
                     Unchanged3, FALSE)

\* Variant: technically shared variables are trusted like the others.
StatementDelVariable_mayRaiseException_IgnoresSharing(self) ==
    IF self.tolerant
    THEN FALSE
    ELSE IF /\ self.variable_trace # NoTrace
            /\ \/ isTempVariable(self.variable)
               \/ /\ self.previous_trace # NoTrace
                  /\ mustHaveValue(self.previous_trace)
         THEN FALSE
         ELSE TRUE

StatementDelVariable_mayRaiseException(self) ==
    IF self.tolerant
    THEN FALSE
    ELSE IF /\ self.variable_trace # NoTrace
            /\ ~ isSharedTechnically(self.variable)
            /\ \/ isTempVariable(self.variable)
               \/ /\ self.previous_trace # NoTrace
                  /\ mustHaveValue(self.previous_trace)
         THEN FALSE
         ELSE TRUE

\* --------------------------------------------- StatementReleaseVariable
\* Variant: the release is removed unless the variable is proven defined.
StatementReleaseVariable_computeStatement_UnlessDefined(self, cc) ==
    LET cc1 == onVariableRelease(cc, self.variable)
        self1 == [self EXCEPT !.variable_trace = cc1.traces[self.variable]]
    IN  IF ~ mustHaveValue(self1.variable_trace)
        THEN Outcome(self1, cc1,
                     Triple(Removed, "new_statements",
                            "Uninitialized variable is not released."),
                     FALSE)
        ELSE Outcome(self1, cc1, Unchanged3, FALSE)

StatementReleaseVariable_computeStatement(self, cc) ==
    LET cc1 == onVariableRelease(cc, self.variable)
        self1 == [self EXCEPT !.variable_trace = cc1.traces[self.variable]]
    IN  IF isUninitTrace(self1.variable_trace)
        THEN Outcome(self1, cc1,
                     Triple(Removed, "new_statements",
                            "Uninitialized variable is not released."),
                     FALSE)
        ELSE Outcome(self1, cc1, Unchanged3, FALSE)

StatementReleaseVariable_mayHaveSideEffects(self) == TRUE

StatementReleaseVariable_mayRaiseException(self) == FALSE

\* ------------------------------------------------ StatementDelAttribute
StatementDelAttribute_computeStatement(self, cc) ==
    LET cc1 == onExpression(cc, self.expression)
        lookup_source == self.expression
    IN  IF willRaiseException(lookup_source)
        THEN Outcome(self, cc1,
                     BareNode(makeStatementExpressionOnlyReplacementNode(lookup_source)),
                     FALSE)
        ELSE Outcome(self, onControlFlowEscape(cc1), Unchanged3, FALSE)

\* ------------------------------------------------ StatementDelSubscript
StatementDelSubscript_computeStatement(self, cc) ==
    LET cc1 == onExpression(cc, self.expression)
        subscribed == self.expression
        cc2 == onExpression(cc1, self.subscript)
        subscript == self.subscript
    IN  IF willRaiseException(subscribed)
        THEN Outcome(self, cc1,
                     Triple(makeStatementExpressionOnlyReplacementNode(subscribed),
                            "new_raise",
                            "Subscript 'del' raises exception in subscribed value, removed del."),
                     FALSE)
        ELSE IF willRaiseException(subscript)
        THEN Outcome(self, cc2,
                     Triple(makeStatementOnlyNodesFromExpressions(<<subscribed, subscript>>),
                            "new_raise",
                            "Subscript 'del' raises exception in subscript value, removed del."),
                     FALSE)
        ELSE Outcome(self, onControlFlowEscape(cc2), Unchanged3, FALSE)

\* ---------------------------------------------------- StatementDelSlice
StatementDelSlice_computeStatement(self, cc) ==
    LET cc1 == onExpression(cc, self.expression)
        lookup_source == self.expression
        cc2 == onExpression(cc1, self.lower)
        lower == self.lower
        cc3 == onExpression(cc2, self.upper)
        upper == self.upper
    IN  IF willRaiseException(lookup_source)
        THEN Outcome(self, cc1,
                     Triple(makeStatementExpressionOnlyReplacementNode(lookup_source),
                            "new_raise",
                            "Slice del raises exception in sliced value, removed del"),
                     FALSE)
        ELSE IF ~ isNone(lower) /\ willRaiseException(lower)
        THEN Outcome(self, cc2,
                     Triple(makeStatementOnlyNodesFromExpressions(<<lookup_source, lower>>),
                            "new_raise",
                            "Slice del raises exception in lower slice boundary value, removed del"),
                     FALSE)
        ELSE IF ~ isNone(upper) /\ willRaiseException(upper)
        THEN Outcome(self, cc3,
                     Triple(makeStatementOnlyNodesFromExpressions(
                                <<lookup_source, lower, upper>>),
                            "new_raise",
                            "Slice del raises exception in upper slice boundary value, removed del"),
                     FALSE)
        ELSE Outcome(self, onControlFlowEscape(cc3), Unchanged3, FALSE)

\* ------------------------------------------------------------------ inputs
\* Injective lists of side effect ids, so that an order can be told apart.
SideEffectLists ==
    {q \in UNION {[1..n -> 1..MaxSideEffects] : n \in 1..MaxSideEffects} :
        \A i, j \in 1..Len(q) : i # j => q[i] # q[j]}

FunctionFlags ==
    {f \in [generator : BOOLEAN, class_dict : BOOLEAN, defaults : BOOLEAN,
            kw_defaults : BOOLEAN, annotations : BOOLEAN] :
        Cardinality({k \in {"generator", "class_dict", "defaults",
                            "kw_defaults", "annotations"} : f[k]}) <= 1}

\* The sources an assignment to a variable is built with.
AssignSources ==
    {[BaseExpr("source") EXCEPT !.shape = "constant", !.mutable = m] : m \in BOOLEAN}
    \cup {[BaseExpr("source") EXCEPT !.shape = "variable_ref", !.variable = v,
                                     !.will_raise = r] :
            v \in VariableNames, r \in BOOLEAN}
    \cup {[BaseExpr("source") EXCEPT !.shape = "function_creation",
                                     !.generator = f.generator,
                                     !.class_dict = f.class_dict,
                                     !.defaults = f.defaults,
                                     !.kw_defaults = f.kw_defaults,
                                     !.annotations = f.annotations,
                                     !.will_raise = r] :
            f \in FunctionFlags, r \in BOOLEAN}
    \cup {[BaseExpr("source") EXCEPT !.shape = "side_effects", !.side_effects = q,
                                     !.residual = k, !.will_raise = r] :
            q \in SideEffectLists, k \in {"constant", "other"}, r \in BOOLEAN}
    \cup {[BaseExpr("source") EXCEPT !.will_raise = r] : r \in BOOLEAN}

\* A child expression of the other statements: it always raises or it does not.
Exprs(role) == {[BaseExpr(role) EXCEPT !.will_raise = r] : r \in BOOLEAN}

\* An optional child: absent, or as above.
OptionalExprs(role) == Exprs(role) \cup {NoneExpr(role)}

NoAnswer == [method |-> "none", value |-> FALSE]

InitialTraces ==
    [v \in VariableNames |-> IF isModuleVariable(v) THEN UnknownTrace ELSE UninitTrace]

Init ==
    /\ node = NoNode
    /\ constraint_collection = [traces |-> InitialTraces, calls |-> <<>>]
    /\ ret = NoReturn
    /\ pc = "idle"
    /\ experimental \in BOOLEAN
    /\ lookup = NoLookup
    /\ answer = NoAnswer
    /\ count = 0

\* ------------------------------------------------------------ construction
\* The traversal reaches the next statement: a fresh node.
Construct(new_node) ==
    /\ pc = "idle"
    /\ count < MaxStatements
    /\ node' = new_node
    /\ constraint_collection' = [constraint_collection EXCEPT !.calls = <<>>]
    /\ ret' = NoReturn
    /\ pc' = "constructed"
    /\ lookup' = NoLookup
    /\ answer' = NoAnswer
    /\ count' = count + 1
    /\ UNCHANGED experimental

StatementAssignmentVariable_init ==
    \E variable \in VariableNames, source \in AssignSources :
        Construct([NoNode EXCEPT !.kind = "STATEMENT_ASSIGNMENT_VARIABLE",
                                 !.variable = variable, !.source = source])

StatementAssignmentAttribute_init ==
    \E expression \in Exprs("expression"), source \in Exprs("source") :
        Construct([NoNode EXCEPT !.kind = "STATEMENT_ASSIGNMENT_ATTRIBUTE",
                                 !.expression = expression, !.source = source])

StatementAssignmentSubscript_init ==
    \E expression \in Exprs("expression"), subscript \in Exprs("subscript"),
       source \in Exprs("source") :
        Construct([NoNode EXCEPT !.kind = "STATEMENT_ASSIGNMENT_SUBSCRIPT",
                                 !.expression = expression,
                                 !.subscript = subscript, !.source = source])

StatementAssignmentSlice_init ==
    \E expression \in Exprs("expression"), lower \in OptionalExprs("lower"),
       upper \in OptionalExprs("upper"), source \in Exprs("source") :
        Construct([NoNode EXCEPT !.kind = "STATEMENT_ASSIGNMENT_SLICE",
                                 !.expression = expression, !.lower = lower,
                                 !.upper = upper, !.source = source])

StatementDelVariable_init ==
    \E variable \in VariableNames, tolerant \in BOOLEAN :
        Construct([NoNode EXCEPT !.kind = "STATEMENT_DEL_VARIABLE",
                                 !.variable = variable, !.tolerant = tolerant])

StatementReleaseVariable_init ==
    \E variable \in VariableNames :
        Construct([NoNode EXCEPT !.kind = "STATEMENT_RELEASE_VARIABLE",
                                 !.variable = variable])

StatementDelAttribute_init ==
    \E expression \in Exprs("expression") :
        Construct([NoNode EXCEPT !.kind = "STATEMENT_DEL_ATTRIBUTE",
                                 !.expression = expression])

StatementDelSubscript_init ==
    \E expression \in Exprs("expression"), subscript \in Exprs("subscript") :
        Construct([NoNode EXCEPT !.kind = "STATEMENT_DEL_SUBSCRIPT",
                                 !.expression = expression, !.subscript = subscript])

StatementDelSlice_init ==
    \E expression \in Exprs("expression"), lower \in OptionalExprs("lower"),
       upper \in OptionalExprs("upper") :
        Construct([NoNode EXCEPT !.kind = "STATEMENT_DEL_SLICE",
                                 !.expression = expression, !.lower = lower,
                                 !.upper = upper])

\* ---------------------------------------------------------- the rules run
Compute(kind, outcome, registry) ==
    /\ pc = "constructed"
    /\ node.kind = kind
    /\ node' = outcome.node
    /\ constraint_collection' = outcome.cc
    /\ ret' = outcome.ret
    /\ lookup' = IF outcome.consulted THEN registry ELSE NoLookup
    /\ pc' = "computed"
    /\ answer' = NoAnswer
    /\ UNCHANGED <<experimental, count>>

\* The registry and the parent provider answer only on the paths that ask them.
ComputeAssignmentVariable ==
    /\ pc = "constructed"
    /\ node.kind = "STATEMENT_ASSIGNMENT_VARIABLE"
    /\ LET early == StatementAssignmentVariable_computeStatement(
                        node, constraint_collection, NoLookup, experimental)
       IN  IF early.consulted
           THEN \E registry \in RegistryAnswers :
                   Compute("STATEMENT_ASSIGNMENT_VARIABLE",
                           StatementAssignmentVariable_computeStatement(
                               node, constraint_collection, registry, experimental),
                           registry)
           ELSE Compute("STATEMENT_ASSIGNMENT_VARIABLE", early, NoLookup)

ComputeAssignmentAttribute ==
    Compute("STATEMENT_ASSIGNMENT_ATTRIBUTE",
            StatementAssignmentAttribute_computeStatement(node, constraint_collection),
            NoLookup)

ComputeAssignmentSubscript ==
    Compute("STATEMENT_ASSIGNMENT_SUBSCRIPT",
            StatementAssignmentSubscript_computeStatement(node, constraint_collection),
            NoLookup)

ComputeAssignmentSlice ==
    Compute("STATEMENT_ASSIGNMENT_SLICE",
            StatementAssignmentSlice_computeStatement(node, constraint_collection),
            NoLookup)

ComputeDelVariable ==
    Compute("STATEMENT_DEL_VARIABLE",
            StatementDelVariable_computeStatement(node, constraint_collection),
            NoLookup)

ComputeReleaseVariable ==
    Compute("STATEMENT_RELEASE_VARIABLE",
            StatementReleaseVariable_computeStatement(node, constraint_collection),
            NoLookup)

ComputeDelAttribute ==
    Compute("STATEMENT_DEL_ATTRIBUTE",
            StatementDelAttribute_computeStatement(node, constraint_collection),
            NoLookup)

ComputeDelSubscript ==
    Compute("STATEMENT_DEL_SUBSCRIPT",
            StatementDelSubscript_computeStatement(node, constraint_collection),
            NoLookup)

ComputeDelSlice ==
    Compute("STATEMENT_DEL_SLICE",
            StatementDelSlice_computeStatement(node, constraint_collection),
            NoLookup)

\* ------------------------------------------------------------ the queries
Ask(kind, method, value) ==
    /\ pc \in {"constructed", "computed"}
    /\ node.kind = kind
    /\ answer' = [method |-> method, value |-> value]
    /\ UNCHANGED <<node, constraint_collection, ret, pc, experimental, lookup, count>>

AskDelVariableMayRaiseException ==
    Ask("STATEMENT_DEL_VARIABLE", "mayRaiseException",
        StatementDelVariable_mayRaiseException(node))

AskReleaseVariableMayHaveSideEffects ==
    Ask("STATEMENT_RELEASE_VARIABLE", "mayHaveSideEffects",
        StatementReleaseVariable_mayHaveSideEffects(node))

AskReleaseVariableMayRaiseException ==
    Ask("STATEMENT_RELEASE_VARIABLE", "mayRaiseException",
        StatementReleaseVariable_mayRaiseException(node))

\* The traversal is done with the statement and moves on; the traces stay.
NextStatement ==
    /\ pc = "computed"
    /\ node' = NoNode
    /\ constraint_collection' = [constraint_collection EXCEPT !.calls = <<>>]
    /\ ret' = NoReturn
    /\ pc' = "idle"
    /\ lookup' = NoLookup
    /\ answer' = NoAnswer
    /\ UNCHANGED <<experimental, count>>

Next ==
    \/ StatementAssignmentVariable_init
    \/ StatementAssignmentAttribute_init
    \/ StatementAssignmentSubscript_init
    \/ StatementAssignmentSlice_init
    \/ StatementDelVariable_init
    \/ StatementReleaseVariable_init
    \/ StatementDelAttribute_init
    \/ StatementDelSubscript_init
    \/ StatementDelSlice_init
    \/ ComputeAssignmentVariable
    \/ ComputeAssignmentAttribute
    \/ ComputeAssignmentSubscript
    \/ ComputeAssignmentSlice
    \/ ComputeDelVariable
    \/ ComputeReleaseVariable
    \/ ComputeDelAttribute
    \/ ComputeDelSubscript
    \/ ComputeDelSlice
    \/ AskDelVariableMayRaiseException
    \/ AskReleaseVariableMayHaveSideEffects
    \/ AskReleaseVariableMayRaiseException
    \/ NextStatement

Spec == Init /\ [][Next]_vars

TypeOK ==
    /\ pc \in {"idle", "constructed", "computed"}
    /\ count \in 0..MaxStatements
    /\ ret.form \in {"none", "triple", "node"}

\* ================================================================== claims
Computed(kind) == pc = "computed" /\ node.kind = kind

Calls == constraint_collection.calls

Called(name) == \E i \in 1..Len(Calls) : Calls[i][1] = name

Emitted == ret.replacement.statements

\* C1: every computeStatement returns, on every path, a triple
\* (replacement, change_tag, description) whose change_tag is one of None,
\* new_statements, new_raise and whose description is present whenever the
\* change_tag is not None.
C1_ReturnContract ==
    pc = "computed" =>
        /\ ret.form = "triple"
        /\ ret.change_tag \in {PyNone, "new_statements", "new_raise"}
        /\ (ret.change_tag # PyNone => ret.description # PyNone)

\* The precondition of C2: a subscript assignment whose source and subscribed
\* expression do not always raise and whose subscript does.
C2_Case ==
    /\ Computed("STATEMENT_ASSIGNMENT_SUBSCRIPT")
    /\ ~ willRaiseException(node.source)
    /\ ~ willRaiseException(node.expression)
    /\ willRaiseException(node.subscript)

\* C2 as stated: the result keeps exactly the evaluations of source and
\* subscribed expression, in that order, and is tagged new_raise.
C2_KeepsSourceAndSubscribedOnly ==
    C2_Case =>
        /\ Emitted = <<StatementExpressionOnly(node.source),
                       StatementExpressionOnly(node.expression)>>
        /\ ret.change_tag = "new_raise"

\* C2 amended: the result keeps exactly the evaluations of source, subscribed
\* expression and the raising subscript, in that order, as bare statements,
\* drops the mutation (no escape is recorded) and is tagged new_raise.
C2_KeepsPrefixWithSubscript ==
    C2_Case =>
        /\ ret.form = "triple"
        /\ ret.replacement.form = "sequence"
        /\ Emitted = <<StatementExpressionOnly(node.source),
                       StatementExpressionOnly(node.expression),
                       StatementExpressionOnly(node.subscript)>>
        /\ ret.change_tag = "new_raise"
        /\ ~ Called("onControlFlowEscape")

C2_Witness == C2_Case /\ Len(Emitted) = 3

\* The precondition of C3: a slice assignment with both bounds present whose
\* source and sliced expression do not always raise and whose lower bound does.
C3_Case ==
    /\ Computed("STATEMENT_ASSIGNMENT_SLICE")
    /\ ~ isNone(node.lower)
    /\ ~ isNone(node.upper)
    /\ ~ willRaiseException(node.source)
    /\ ~ willRaiseException(node.expression)
    /\ willRaiseException(node.lower)

\* C3: when the lower bound of a slice assignment always raises, the upper
\* bound is never analyzed, no control flow escape is recorded, and the
\* emitted sequence is exactly [source, sliced expression, lower], tagged
\* new_raise.
C3_LowerRaisesStopsBeforeUpper ==
    C3_Case =>
        /\ Calls = << <<"onExpression", "source">>,
                      <<"onExpression", "expression">>,
                      <<"onExpression", "lower">> >>
        /\ ret.form = "triple"
        /\ Emitted = <<StatementExpressionOnly(node.source),
                       StatementExpressionOnly(node.expression),
                       StatementExpressionOnly(node.lower)>>
        /\ ret.change_tag = "new_raise"

C3_Witness == C3_Case /\ willRaiseException(node.upper) /\ Len(Emitted) = 3

\* C4: under experimental mode, the assignment of an immutable constant to a
\* logically shared local variable installs no replacement on the new trace
\* and is not dropped, whatever the usage counts.
C4_SharedNeverPropagated ==
    ( /\ Computed("STATEMENT_ASSIGNMENT_VARIABLE")
      /\ experimental
      /\ isLocalVariable(node.variable)
      /\ isSharedLogically(node.variable)
      /\ isCompileTimeConstant(node.source)
      /\ ~ isMutable(node.source) )
    =>  /\ ~ Called("setReplacementNode")
        /\ ~ constraint_collection.traces[node.variable].replacement
        /\ ret.replacement = Unchanged

\* An assignment dropped by propagation: the trace was recorded and the
\* statement is not kept.
Dropped ==
    /\ Computed("STATEMENT_ASSIGNMENT_VARIABLE")
    /\ Called("onVariableSet")
    /\ ret.replacement # Unchanged

\* C5 as stated: an assignment is dropped only for an immutable constant or a
\* qualifying function construction whose matching trace has at most one
\* definite use and no potential or name uses.
C5_DroppedOnlyWithAtMostOneUse ==
    Dropped =>
        /\ \/ isCompileTimeConstant(node.source) /\ ~ isMutable(node.source)
           \/ isPlainFunctionCreation(node.source)
        /\ getDefiniteUsages(lookup) <= 1
        /\ ~ hasPotentialUsages(lookup)
        /\ ~ hasNameUsages(lookup)

\* C5 amended: an assignment is dropped only for an immutable constant or a
\* qualifying function construction, only when the matching trace has no
\* potential and no name uses, and, for a function construction, only when it
\* has at most one definite use; a mutable constant is neither dropped nor
\* given a replacement.
C5_DroppedOnlyWhenForwardable ==
    /\ Dropped =>
        /\ \/ isCompileTimeConstant(node.source) /\ ~ isMutable(node.source)
           \/ isPlainFunctionCreation(node.source) /\ getDefiniteUsages(lookup) <= 1
        /\ lookup.global_trace /\ lookup.matching
        /\ ~ hasPotentialUsages(lookup)
        /\ ~ hasNameUsages(lookup)
    /\ ( /\ Computed("STATEMENT_ASSIGNMENT_VARIABLE")
         /\ isCompileTimeConstant(node.source)
         /\ isMutable(node.source) )
       => ret.replacement = Unchanged /\ ~ Called("setReplacementNode")

C5_Witness ==
    /\ Dropped
    /\ isCompileTimeConstant(node.source)
    /\ getDefiniteUsages(lookup) = 2

\* The precondition of C6: the source is a reference to the target variable
\* and does not always raise.
C6_Case ==
    /\ Computed("STATEMENT_ASSIGNMENT_VARIABLE")
    /\ isExpressionVariableRef(node.source)
    /\ node.source.variable = node.variable
    /\ ~ willRaiseException(node.source)

\* C6: assigning a non-module variable to itself removes the statement when
\* the variable is proven defined and otherwise reduces it to a bare
\* evaluation of the reference, both tagged new_statements; a module variable
\* assigned to itself is kept unchanged.
C6_SelfAssignment ==
    C6_Case =>
        IF isModuleVariable(node.variable)
        THEN ret = Unchanged3
        ELSE /\ ret.form = "triple"
             /\ ret.change_tag = "new_statements"
             /\ ~ Called("onVariableSet")
             /\ IF mustHaveValue(constraint_collection.traces[node.variable])
                THEN ret.replacement = Removed
                ELSE ret.replacement =
                        makeStatementExpressionOnlyReplacementNode(node.source)

C6_Witness ==
    /\ C6_Case
    /\ ~ isModuleVariable(node.variable)
    /\ ret.replacement = Removed

\* C7: when the source of an assignment to a variable always raises, only the
\* source is kept, as one bare evaluation tagged new_raise; no trace is
\* recorded, nothing is hoisted and nothing is propagated, whatever the source
\* and the target are.
C7_SourceRaises ==
    ( Computed("STATEMENT_ASSIGNMENT_VARIABLE") /\ willRaiseException(node.source) )
    =>  /\ ret.form = "triple"
        /\ ret.replacement = makeStatementExpressionOnlyReplacementNode(node.source)
        /\ ret.change_tag = "new_raise"
        /\ Calls = << <<"onExpression", "source">> >>
        /\ node.source.role = "source"

C7_Witness ==
    /\ Computed("STATEMENT_ASSIGNMENT_VARIABLE")
    /\ willRaiseException(node.source)
    /\ isExpressionVariableRef(node.source)
    /\ node.source.variable = node.variable
    /\ ~ isModuleVariable(node.variable)
    /\ ret.change_tag = "new_raise"

\* The step C8 is about: the rule runs on an assignment whose source carries
\* side effects and does not always raise.
C8_Step ==
    /\ pc = "constructed"
    /\ pc' = "computed"
    /\ node.kind = "STATEMENT_ASSIGNMENT_VARIABLE"
    /\ isExpressionSideEffects(node.source)
    /\ ~ willRaiseException(node.source)

C9_TolerantDelete ==
    Computed("STATEMENT_DEL_VARIABLE") =>
        /\ (node.tolerant /\ isUninitTrace(node.previous_trace)) =>
              /\ ret.form = "triple"
              /\ ret.replacement = Removed
              /\ ret.change_tag = "new_statements"
              /\ ~ Called("onControlFlowEscape")
        /\ ~ node.tolerant => ret = Unchanged3

C9_Witness ==
    /\ Computed("STATEMENT_DEL_VARIABLE")
    /\ node.tolerant
    /\ isUninitTrace(node.previous_trace)
    /\ ret.replacement = Removed

\* A state in which mayRaiseException of a delete statement has answered.
C10_Asked ==
    /\ node.kind = "STATEMENT_DEL_VARIABLE"
    /\ answer.method = "mayRaiseException"

\* C10 as stated: in every state of the node the answer is false for a
\* tolerant delete, false for a temporary or a previous trace that must have a
\* value, and true otherwise.
C10_MayRaiseInEveryState ==
    C10_Asked =>
        answer.value =
            ( /\ ~ node.tolerant
              /\ ~ isTempVariable(node.variable)
              /\ ~ mustHaveValue(node.previous_trace) )

\* C10 amended: the answer is false for a tolerant delete; for a delete that
\* is not tolerant it is false exactly when computeStatement has run, the
\* variable is not technically shared, and the variable is a temporary or the
\* previous trace must have a value; it is true otherwise.
C10_MayRaiseAfterCompute ==
    C10_Asked =>
        answer.value =
            ( /\ ~ node.tolerant
              /\ ~ ( /\ pc = "computed"
                     /\ ~ isSharedTechnically(node.variable)
                     /\ \/ isTempVariable(node.variable)
                        \/ mustHaveValue(node.previous_trace) ) )

C10_Witness ==
    /\ C10_Asked
    /\ pc = "computed"
    /\ ~ node.tolerant
    /\ ~ isTempVariable(node.variable)
    /\ mustHaveValue(node.previous_trace)
    /\ ~ answer.value

\* The children of the statement at hand that the rule analyzes, in source
\* order, absent bounds included.
Children ==
    CASE node.kind = "STATEMENT_ASSIGNMENT_ATTRIBUTE" -> <<node.source, node.expression>>
      [] node.kind = "STATEMENT_ASSIGNMENT_SUBSCRIPT" ->
            <<node.source, node.expression, node.subscript>>
      [] node.kind = "STATEMENT_ASSIGNMENT_SLICE" ->
            <<node.source, node.expression, node.lower, node.upper>>
      [] node.kind = "STATEMENT_DEL_ATTRIBUTE" -> <<node.expression>>
      [] node.kind = "STATEMENT_DEL_SUBSCRIPT" -> <<node.expression, node.subscript>>
      [] node.kind = "STATEMENT_DEL_SLICE" -> <<node.expression, node.lower, node.upper>>
      [] OTHER -> <<>>

Raises(expression) == ~ isNone(expression) /\ willRaiseException(expression)

SomeChildRaises == \E i \in 1..Len(Children) : Raises(Children[i])

\* The log of a rule that analyzed every child and then recorded an escape.
AnalyzedAllThenEscaped ==
    /\ Len(Calls) = Len(Children) + 1
    /\ \A i \in 1..Len(Children) : Calls[i] = <<"onExpression", Children[i].role>>
    /\ Calls[Len(Calls)] = <<"onControlFlowEscape", "">>

AssignmentMutationKinds ==
    {"STATEMENT_ASSIGNMENT_ATTRIBUTE", "STATEMENT_ASSIGNMENT_SUBSCRIPT",
     "STATEMENT_ASSIGNMENT_SLICE"}

\* C11: for assignments to attribute, subscript and slice, the escape is
\* recorded exactly once, after every sub-expression was analyzed, if and only
\* if no sub-expression always raises, and the statement is then returned
\* unchanged with no tag; on a short-circuit no escape is recorded and the
\* mutation is dropped.
C11_EscapeIffNothingRaises ==
    (pc = "computed" /\ node.kind \in AssignmentMutationKinds) =>
        IF SomeChildRaises
        THEN /\ ~ Called("onControlFlowEscape")
             /\ ret.change_tag = "new_raise"
             /\ ret.replacement # Unchanged
             /\ \A i \in 1..Len(Emitted) : Emitted[i].stmt = "expression_only"
        ELSE /\ AnalyzedAllThenEscaped
             /\ ret = Unchanged3

C11_Witness ==
    /\ Computed("STATEMENT_ASSIGNMENT_SLICE")
    /\ ~ SomeChildRaises
    /\ isNone(node.lower)
    /\ ~ isNone(node.upper)
    /\ Called("onControlFlowEscape")

\* C12: a delete of a variable that is kept records onVariableDel, then the
\* escape, then fetches the current trace, in that order, and the trace the
\* node stores is the one the constraint collection holds after the escape.
C12_TraceFetchedAfterEscape ==
    (Computed("STATEMENT_DEL_VARIABLE") /\ ret.replacement = Unchanged) =>
        /\ Calls = << <<"onVariableDel", node.variable>>,
                      <<"onControlFlowEscape", "">>,
                      <<"getVariableCurrentTrace", node.variable>> >>
        /\ node.variable_trace = constraint_collection.traces[node.variable]

\* A technically shared variable: its trace after the escape is not the
\* Uninit trace the deletion had recorded.
C12_Witness ==
    /\ Computed("STATEMENT_DEL_VARIABLE")
    /\ ret.replacement = Unchanged
    /\ isSharedTechnically(node.variable)
    /\ node.variable_trace = UnknownTrace

DeleteMutationKinds ==
    {"STATEMENT_DEL_ATTRIBUTE", "STATEMENT_DEL_SUBSCRIPT", "STATEMENT_DEL_SLICE"}

\* The children that are present, in source order.
PresentChildren == SelectSeq(Children, LAMBDA e : ~ isNone(e))

\* The position of the first present child that always raises.
FirstRaising ==
    CHOOSE k \in 1..Len(PresentChildren) :
        /\ Raises(PresentChildren[k])
        /\ \A i \in 1..(k - 1) : ~ Raises(PresentChildren[i])

\* The log never mentions a child that comes after the given one.
NothingAnalyzedAfter(expression) ==
    \A i \in 1..Len(Calls) : \A j, m \in 1..Len(Children) :
        ( /\ Calls[i] = <<"onExpression", Children[j].role>>
          /\ Children[m].role = expression.role )
        => j <= m

\* C13: delete of attribute, subscript and slice analyze target, key or lower
\* bound, upper bound in that order; at the first one that always raises they
\* return exactly the analyzed prefix, the raising one included, as bare
\* evaluations tagged new_raise, without analyzing what follows; the escape is
\* recorded exactly when nothing raises.
C13_DeleteShortCircuit ==
    (pc = "computed" /\ node.kind \in DeleteMutationKinds) =>
        IF SomeChildRaises
        THEN /\ ret.form = "triple"
             /\ ret.change_tag = "new_raise"
             /\ Emitted = [i \in 1..FirstRaising |->
                              StatementExpressionOnly(PresentChildren[i])]
             /\ NothingAnalyzedAfter(PresentChildren[FirstRaising])
             /\ ~ Called("onControlFlowEscape")
        ELSE /\ AnalyzedAllThenEscaped
             /\ ret = Unchanged3

\* C13 without the delete of an attribute, and with present bounds only: the
\* part of the claim that the faults of C1 and C18 do not touch.
C13_DeleteShortCircuitElsewhere ==
    ( /\ pc = "computed"
      /\ node.kind \in {"STATEMENT_DEL_SUBSCRIPT", "STATEMENT_DEL_SLICE"}
      /\ Len(PresentChildren) = Len(Children) )
    => C13_DeleteShortCircuit

\* C14: the release of a variable records onVariableRelease and is removed,
\* tagged new_statements, exactly when the trace it got back is Uninit, and is
\* otherwise returned unchanged with no tag; whatever the trace, it answers
\* true to mayHaveSideEffects and false to mayRaiseException.
C14_Release ==
    /\ Computed("STATEMENT_RELEASE_VARIABLE") =>
        /\ Calls = << <<"onVariableRelease", node.variable>> >>
        /\ node.variable_trace = constraint_collection.traces[node.variable]
        /\ IF isUninitTrace(node.variable_trace)
           THEN /\ ret.form = "triple"
                /\ ret.replacement = Removed
                /\ ret.change_tag = "new_statements"
                /\ ret.description # PyNone
           ELSE ret = Unchanged3
    /\ (node.kind = "STATEMENT_RELEASE_VARIABLE" /\ answer.method = "mayHaveSideEffects")
            => answer.value
    /\ (node.kind = "STATEMENT_RELEASE_VARIABLE" /\ answer.method = "mayRaiseException")
            => ~ answer.value

C14_Witness ==
    /\ Computed("STATEMENT_RELEASE_VARIABLE")
    /\ node.variable_trace = UnknownTrace
    /\ ret = Unchanged3
    /\ answer.method = "mayRaiseException"
    /\ ~ answer.value

\* The precondition of C15: experimental mode is off and the assignment
\* reached case (d): its source does not always raise, is not a reference to
\* the target (unless that is a module variable), and carries no side effects.
C15_Case ==
    /\ Computed("STATEMENT_ASSIGNMENT_VARIABLE")
    /\ ~ experimental
    /\ node.source.role = "source"
    /\ ~ willRaiseException(node.source)
    /\ ~ isExpressionSideEffects(node.source)
    /\ ~ ( /\ ~ isModuleVariable(node.variable)
           /\ isExpressionVariableRef(node.source)
           /\ node.source.variable = node.variable )

\* C15: with experimental mode off, an assignment that reaches case (d) has
\* its trace recorded and is returned unchanged with no tag; no replacement is
\* installed and the statement is neither dropped nor turned into a delete.
C15_NoPropagationUnlessExperimental ==
    C15_Case =>
        /\ Calls = << <<"onExpression", "source">>,
                      <<"onVariableSet", node.variable>> >>
        /\ ret = Unchanged3
        /\ node.variable_trace = AssignedTrace
        /\ constraint_collection.traces[node.variable] = AssignedTrace

\* An assignment that would be forwarded and dropped in experimental mode.
C15_Witness ==
    /\ C15_Case
    /\ node.variable = "x"
    /\ isCompileTimeConstant(node.source)
    /\ ~ isMutable(node.source)
    /\ lookup.global_trace
    /\ lookup.matching
    /\ getDefiniteUsages(lookup) = 1
    /\ ~ hasPotentialUsages(lookup)
    /\ ~ hasNameUsages(lookup)
    /\ lookup.provider = "function"

\* C16: whenever propagation drops an assignment, the replacement is a
\* tolerant delete of the target variable if the trace before the assignment
\* was not Uninit, and nothing if it was; the tag is new_statements, and the
\* replacement is never a delete that is not tolerant.
C16_DropLeavesTolerantDelete ==
    Dropped =>
        /\ ret.form = "triple"
        /\ ret.change_tag = "new_statements"
        /\ ret.description # PyNone
        /\ IF lookup.previous_uninit
           THEN ret.replacement = Removed
           ELSE ret.replacement = NewStatementDelVariable(node.variable, TRUE)
        /\ \A i \in 1..Len(Emitted) :
              Emitted[i].stmt = "del_variable" => Emitted[i].tolerant

C16_Witness ==
    /\ Dropped
    /\ isPlainFunctionCreation(node.source)
    /\ ~ lookup.previous_uninit
    /\ Len(Emitted) = 1
    /\ Emitted[1].stmt = "del_variable"
    /\ Emitted[1].variable = node.variable

\* The number of onVariableSet calls in a log.
SetCalls(calls) == Cardinality({i \in 1..Len(calls) : calls[i][1] = "onVariableSet"})

\* One of the three early returns applies to the assignment at hand.
ReturnsEarly ==
    \/ willRaiseException(node.source)
    \/ /\ ~ isModuleVariable(node.variable)
       /\ isExpressionVariableRef(node.source)
       /\ node.source.variable = node.variable
    \/ isExpressionSideEffects(node.source)

\* C17: one run of the rule for an assignment to a variable calls
\* onVariableSet at most once, and exactly when the source does not always
\* raise, is not a self assignment of a non-module variable and carries no
\* side effects; on those three early returns the traces the constraint
\* collection holds are left as they were.
C17_TraceAdvancesOnlyInCaseD ==
    [][ ( /\ pc = "constructed"
          /\ pc' = "computed"
          /\ node.kind = "STATEMENT_ASSIGNMENT_VARIABLE" )
        =>  IF ReturnsEarly
            THEN /\ SetCalls(constraint_collection'.calls) = 0
                 /\ constraint_collection'.traces = constraint_collection.traces
                 /\ node'.variable_trace = NoTrace
            ELSE /\ SetCalls(constraint_collection'.calls) = 1
                 /\ constraint_collection'.calls[2] = <<"onVariableSet", node.variable>>
                 /\ mustHaveValue(constraint_collection'.traces[node.variable])
      ]_vars

\* Side effects were hoisted from an assignment to a variable that is still
\* uninitialized afterwards.
C17_Witness ==
    /\ Computed("STATEMENT_ASSIGNMENT_VARIABLE")
    /\ node.source.role = "residual"
    /\ ret.change_tag = "new_statements"
    /\ ~ Called("onVariableSet")
    /\ isUninitTrace(constraint_collection.traces[node.variable])

\* The case of C18: a slice assignment or slice delete whose lower bound is
\* absent and whose upper bound is the first sub-expression to always raise.
C18_Case ==
    /\ pc = "computed"
    /\ node.kind \in {"STATEMENT_ASSIGNMENT_SLICE", "STATEMENT_DEL_SLICE"}
    /\ isNone(node.lower)
    /\ Raises(node.upper)
    /\ PresentChildren[FirstRaising].role = "upper"

\* C18: when the lower bound is absent and the upper bound always raises, the
\* expressions emitted as bare evaluations are all present: no absent bound
\* is passed on as an expression to evaluate.
C18_NoAbsentBoundEmitted ==
    C18_Case =>
        \A i \in 1..Len(Emitted) : ~ isNone(Emitted[i].expression)

\* With the lower bound present, the emitted expressions are all present.
C18_PresentLowerEmitted ==
    ( /\ pc = "computed"
      /\ node.kind \in {"STATEMENT_ASSIGNMENT_SLICE", "STATEMENT_DEL_SLICE"}
      /\ ~ isNone(node.lower) )
    => \A i \in 1..Len(Emitted) : ~ isNone(Emitted[i].expression)

====
